---- MODULE Spec2Model ----
(***************************************************************************)
(* Model of SpaRe.py: clean_text, find_SpaRe and freq_SpIn.                *)
(*                                                                         *)
(* A Python str is the sequence of the Unicode code points of its          *)
(* characters ("ab" is <<97, 98>>).  A Python dict is                      *)
(* a sequence of [k, v] records in insertion order (dicts iterate in       *)
(* insertion order; updating an existing key keeps its position).          *)
(* Every for-loop is one action per iteration plus one action for the      *)
(* loop exit.  Locals that Python has not yet bound hold 0 / <<>>.         *)
(***************************************************************************)
EXTENDS Integers, Sequences, FiniteSets, TLC

VARIABLES
    pc,                     \* position in the program
    \* clean_text
    file_content,           \* what file.read() returns
    text_as_string,
    alnum_and_space,
    alnum_and_single_space,
    index,                  \* loop position of the two loops of clean_text
    \* find_SpaRe
    text,
    snippets,
    location_and_length,
    snippet_indices,
    SpIn_location,
    x_find,                 \* x of the loop at line 109 (iterations done)
    x_loc,                  \* position of the loop at line 118
    \* freq_SpIn
    nr_of_chunks,
    densities,
    chunk_length,
    x,
    chunk,
    start,
    end

cleanVars == <<file_content, text_as_string, alnum_and_space,
               alnum_and_single_space, index>>
findVars  == <<snippets, location_and_length, snippet_indices, x_find, x_loc>>
freqVars  == <<nr_of_chunks, densities, chunk_length, x, chunk, start, end>>
vars == <<pc, file_content, text_as_string, alnum_and_space,
          alnum_and_single_space, index, text, snippets, location_and_length,
          snippet_indices, SpIn_location, x_find, x_loc, nr_of_chunks,
          densities, chunk_length, x, chunk, start, end>>

----------------------------------------------------------------------------
(* Bounds of the model *)

MaxRawLen == 4          \* length of the file content given to clean_text
MaxTextLen == 3         \* length of the text given to find_SpaRe
MaxSnippets == 3        \* number of snippets
MaxSnippetLen == 2      \* length of one snippet
MaxChunks == 3          \* nr_of_chunks
MaxFreqTextLen == 5     \* length of the text given to freq_SpIn directly
MaxLocs == 2            \* number of locations given to freq_SpIn directly

----------------------------------------------------------------------------
(* Generic helpers *)

SeqsUpTo(S, n) == UNION {[1..k -> S] : k \in 0..n}

Min(S) == CHOOSE m \in S : \A o \in S : m <= o

Max(S) == CHOOSE m \in S : \A o \in S : m >= o

RECURSIVE SumSeq(_)
SumSeq(s) == IF s = <<>> THEN 0 ELSE Head(s) + SumSeq(Tail(s))

(* dict: insertion-ordered sequence of [k, v] *)
DictHas(d, k) == \E i \in 1..Len(d) : d[i].k = k
DictGet(d, k) == d[CHOOSE i \in 1..Len(d) : d[i].k = k].v
DictKeys(d) == [i \in 1..Len(d) |-> d[i].k]
DictValues(d) == [i \in 1..Len(d) |-> d[i].v]

DictUpdate_FirstWins(d, k, v) ==
    IF DictHas(d, k) THEN d ELSE Append(d, [k |-> k, v |-> v])

(* d.update({k: v}) *)
DictUpdate(d, k, v) ==
    IF DictHas(d, k)
    THEN [i \in 1..Len(d) |-> IF d[i].k = k THEN [k |-> k, v |-> v] ELSE d[i]]
    ELSE Append(d, [k |-> k, v |-> v])

----------------------------------------------------------------------------
(* clean_text *)

(* A character is its Unicode code point (ord), a str the sequence of the  *)
(* code points of its characters.                                          *)
Space == 32
Hyphen == 45
Newline == 10

(* The code points c for which chr(c).isalpha() is True, as inclusive      *)
(* ranges <<first, last>>: the characters of the general categories Lu,    *)
(* Ll, Lt, Lm and Lo of the Unicode database of CPython 3.11 (14.0.0).     *)
(* <<65, 90>> is A-Z, <<97, 122>> is a-z.                                  *)
AlphaRanges ==
    {<<65, 90>>, <<97, 122>>, <<170, 170>>, <<181, 181>>, <<186, 186>>,
     <<192, 214>>, <<216, 246>>, <<248, 705>>, <<710, 721>>, <<736, 740>>,
     <<748, 748>>, <<750, 750>>, <<880, 884>>, <<886, 887>>, <<890, 893>>,
     <<895, 895>>, <<902, 902>>, <<904, 906>>, <<908, 908>>, <<910, 929>>,
     <<931, 1013>>, <<1015, 1153>>, <<1162, 1327>>, <<1329, 1366>>,
     <<1369, 1369>>, <<1376, 1416>>, <<1488, 1514>>, <<1519, 1522>>,
     <<1568, 1610>>, <<1646, 1647>>, <<1649, 1747>>, <<1749, 1749>>,
     <<1765, 1766>>, <<1774, 1775>>, <<1786, 1788>>, <<1791, 1791>>,
     <<1808, 1808>>, <<1810, 1839>>, <<1869, 1957>>, <<1969, 1969>>,
     <<1994, 2026>>, <<2036, 2037>>, <<2042, 2042>>, <<2048, 2069>>,
     <<2074, 2074>>, <<2084, 2084>>, <<2088, 2088>>, <<2112, 2136>>,
     <<2144, 2154>>, <<2160, 2183>>, <<2185, 2190>>, <<2208, 2249>>,
     <<2308, 2361>>, <<2365, 2365>>, <<2384, 2384>>, <<2392, 2401>>,
     <<2417, 2432>>, <<2437, 2444>>, <<2447, 2448>>, <<2451, 2472>>,
     <<2474, 2480>>, <<2482, 2482>>, <<2486, 2489>>, <<2493, 2493>>,
     <<2510, 2510>>, <<2524, 2525>>, <<2527, 2529>>, <<2544, 2545>>,
     <<2556, 2556>>, <<2565, 2570>>, <<2575, 2576>>, <<2579, 2600>>,
     <<2602, 2608>>, <<2610, 2611>>, <<2613, 2614>>, <<2616, 2617>>,
     <<2649, 2652>>, <<2654, 2654>>, <<2674, 2676>>, <<2693, 2701>>,
     <<2703, 2705>>, <<2707, 2728>>, <<2730, 2736>>, <<2738, 2739>>,
     <<2741, 2745>>, <<2749, 2749>>, <<2768, 2768>>, <<2784, 2785>>,
     <<2809, 2809>>, <<2821, 2828>>, <<2831, 2832>>, <<2835, 2856>>,
     <<2858, 2864>>, <<2866, 2867>>, <<2869, 2873>>, <<2877, 2877>>,
     <<2908, 2909>>, <<2911, 2913>>, <<2929, 2929>>, <<2947, 2947>>,
     <<2949, 2954>>, <<2958, 2960>>, <<2962, 2965>>, <<2969, 2970>>,
     <<2972, 2972>>, <<2974, 2975>>, <<2979, 2980>>, <<2984, 2986>>,
     <<2990, 3001>>, <<3024, 3024>>, <<3077, 3084>>, <<3086, 3088>>,
     <<3090, 3112>>, <<3114, 3129>>, <<3133, 3133>>, <<3160, 3162>>,
     <<3165, 3165>>, <<3168, 3169>>, <<3200, 3200>>, <<3205, 3212>>,
     <<3214, 3216>>, <<3218, 3240>>, <<3242, 3251>>, <<3253, 3257>>,
     <<3261, 3261>>, <<3293, 3294>>, <<3296, 3297>>, <<3313, 3314>>,
     <<3332, 3340>>, <<3342, 3344>>, <<3346, 3386>>, <<3389, 3389>>,
     <<3406, 3406>>, <<3412, 3414>>, <<3423, 3425>>, <<3450, 3455>>,
     <<3461, 3478>>, <<3482, 3505>>, <<3507, 3515>>, <<3517, 3517>>,
     <<3520, 3526>>, <<3585, 3632>>, <<3634, 3635>>, <<3648, 3654>>,
     <<3713, 3714>>, <<3716, 3716>>, <<3718, 3722>>, <<3724, 3747>>,
     <<3749, 3749>>, <<3751, 3760>>, <<3762, 3763>>, <<3773, 3773>>,
     <<3776, 3780>>, <<3782, 3782>>, <<3804, 3807>>, <<3840, 3840>>,
     <<3904, 3911>>, <<3913, 3948>>, <<3976, 3980>>, <<4096, 4138>>,
     <<4159, 4159>>, <<4176, 4181>>, <<4186, 4189>>, <<4193, 4193>>,
     <<4197, 4198>>, <<4206, 4208>>, <<4213, 4225>>, <<4238, 4238>>,
     <<4256, 4293>>, <<4295, 4295>>, <<4301, 4301>>, <<4304, 4346>>,
     <<4348, 4680>>, <<4682, 4685>>, <<4688, 4694>>, <<4696, 4696>>,
     <<4698, 4701>>, <<4704, 4744>>, <<4746, 4749>>, <<4752, 4784>>,
     <<4786, 4789>>, <<4792, 4798>>, <<4800, 4800>>, <<4802, 4805>>,
     <<4808, 4822>>, <<4824, 4880>>, <<4882, 4885>>, <<4888, 4954>>,
     <<4992, 5007>>, <<5024, 5109>>, <<5112, 5117>>, <<5121, 5740>>,
     <<5743, 5759>>, <<5761, 5786>>, <<5792, 5866>>, <<5873, 5880>>,
     <<5888, 5905>>, <<5919, 5937>>, <<5952, 5969>>, <<5984, 5996>>,
     <<5998, 6000>>, <<6016, 6067>>, <<6103, 6103>>, <<6108, 6108>>,
     <<6176, 6264>>, <<6272, 6276>>, <<6279, 6312>>, <<6314, 6314>>,
     <<6320, 6389>>, <<6400, 6430>>, <<6480, 6509>>, <<6512, 6516>>,
     <<6528, 6571>>, <<6576, 6601>>, <<6656, 6678>>, <<6688, 6740>>,
     <<6823, 6823>>, <<6917, 6963>>, <<6981, 6988>>, <<7043, 7072>>,
     <<7086, 7087>>, <<7098, 7141>>, <<7168, 7203>>, <<7245, 7247>>,
     <<7258, 7293>>, <<7296, 7304>>, <<7312, 7354>>, <<7357, 7359>>,
     <<7401, 7404>>, <<7406, 7411>>, <<7413, 7414>>, <<7418, 7418>>,
     <<7424, 7615>>, <<7680, 7957>>, <<7960, 7965>>, <<7968, 8005>>,
     <<8008, 8013>>, <<8016, 8023>>, <<8025, 8025>>, <<8027, 8027>>,
     <<8029, 8029>>, <<8031, 8061>>, <<8064, 8116>>, <<8118, 8124>>,
     <<8126, 8126>>, <<8130, 8132>>, <<8134, 8140>>, <<8144, 8147>>,
     <<8150, 8155>>, <<8160, 8172>>, <<8178, 8180>>, <<8182, 8188>>,
     <<8305, 8305>>, <<8319, 8319>>, <<8336, 8348>>, <<8450, 8450>>,
     <<8455, 8455>>, <<8458, 8467>>, <<8469, 8469>>, <<8473, 8477>>,
     <<8484, 8484>>, <<8486, 8486>>, <<8488, 8488>>, <<8490, 8493>>,
     <<8495, 8505>>, <<8508, 8511>>, <<8517, 8521>>, <<8526, 8526>>,
     <<8579, 8580>>, <<11264, 11492>>, <<11499, 11502>>, <<11506, 11507>>,
     <<11520, 11557>>, <<11559, 11559>>, <<11565, 11565>>,
     <<11568, 11623>>, <<11631, 11631>>, <<11648, 11670>>,
     <<11680, 11686>>, <<11688, 11694>>, <<11696, 11702>>,
     <<11704, 11710>>, <<11712, 11718>>, <<11720, 11726>>,
     <<11728, 11734>>, <<11736, 11742>>, <<11823, 11823>>,
     <<12293, 12294>>, <<12337, 12341>>, <<12347, 12348>>,
     <<12353, 12438>>, <<12445, 12447>>, <<12449, 12538>>,
     <<12540, 12543>>, <<12549, 12591>>, <<12593, 12686>>,
     <<12704, 12735>>, <<12784, 12799>>, <<13312, 19903>>,
     <<19968, 42124>>, <<42192, 42237>>, <<42240, 42508>>,
     <<42512, 42527>>, <<42538, 42539>>, <<42560, 42606>>,
     <<42623, 42653>>, <<42656, 42725>>, <<42775, 42783>>,
     <<42786, 42888>>, <<42891, 42954>>, <<42960, 42961>>,
     <<42963, 42963>>, <<42965, 42969>>, <<42994, 43009>>,
     <<43011, 43013>>, <<43015, 43018>>, <<43020, 43042>>,
     <<43072, 43123>>, <<43138, 43187>>, <<43250, 43255>>,
     <<43259, 43259>>, <<43261, 43262>>, <<43274, 43301>>,
     <<43312, 43334>>, <<43360, 43388>>, <<43396, 43442>>,
     <<43471, 43471>>, <<43488, 43492>>, <<43494, 43503>>,
     <<43514, 43518>>, <<43520, 43560>>, <<43584, 43586>>,
     <<43588, 43595>>, <<43616, 43638>>, <<43642, 43642>>,
     <<43646, 43695>>, <<43697, 43697>>, <<43701, 43702>>,
     <<43705, 43709>>, <<43712, 43712>>, <<43714, 43714>>,
     <<43739, 43741>>, <<43744, 43754>>, <<43762, 43764>>,
     <<43777, 43782>>, <<43785, 43790>>, <<43793, 43798>>,
     <<43808, 43814>>, <<43816, 43822>>, <<43824, 43866>>,
     <<43868, 43881>>, <<43888, 44002>>, <<44032, 55203>>,
     <<55216, 55238>>, <<55243, 55291>>, <<63744, 64109>>,
     <<64112, 64217>>, <<64256, 64262>>, <<64275, 64279>>,
     <<64285, 64285>>, <<64287, 64296>>, <<64298, 64310>>,
     <<64312, 64316>>, <<64318, 64318>>, <<64320, 64321>>,
     <<64323, 64324>>, <<64326, 64433>>, <<64467, 64829>>,
     <<64848, 64911>>, <<64914, 64967>>, <<65008, 65019>>,
     <<65136, 65140>>, <<65142, 65276>>, <<65313, 65338>>,
     <<65345, 65370>>, <<65382, 65470>>, <<65474, 65479>>,
     <<65482, 65487>>, <<65490, 65495>>, <<65498, 65500>>,
     <<65536, 65547>>, <<65549, 65574>>, <<65576, 65594>>,
     <<65596, 65597>>, <<65599, 65613>>, <<65616, 65629>>,
     <<65664, 65786>>, <<66176, 66204>>, <<66208, 66256>>,
     <<66304, 66335>>, <<66349, 66368>>, <<66370, 66377>>,
     <<66384, 66421>>, <<66432, 66461>>, <<66464, 66499>>,
     <<66504, 66511>>, <<66560, 66717>>, <<66736, 66771>>,
     <<66776, 66811>>, <<66816, 66855>>, <<66864, 66915>>,
     <<66928, 66938>>, <<66940, 66954>>, <<66956, 66962>>,
     <<66964, 66965>>, <<66967, 66977>>, <<66979, 66993>>,
     <<66995, 67001>>, <<67003, 67004>>, <<67072, 67382>>,
     <<67392, 67413>>, <<67424, 67431>>, <<67456, 67461>>,
     <<67463, 67504>>, <<67506, 67514>>, <<67584, 67589>>,
     <<67592, 67592>>, <<67594, 67637>>, <<67639, 67640>>,
     <<67644, 67644>>, <<67647, 67669>>, <<67680, 67702>>,
     <<67712, 67742>>, <<67808, 67826>>, <<67828, 67829>>,
     <<67840, 67861>>, <<67872, 67897>>, <<67968, 68023>>,
     <<68030, 68031>>, <<68096, 68096>>, <<68112, 68115>>,
     <<68117, 68119>>, <<68121, 68149>>, <<68192, 68220>>,
     <<68224, 68252>>, <<68288, 68295>>, <<68297, 68324>>,
     <<68352, 68405>>, <<68416, 68437>>, <<68448, 68466>>,
     <<68480, 68497>>, <<68608, 68680>>, <<68736, 68786>>,
     <<68800, 68850>>, <<68864, 68899>>, <<69248, 69289>>,
     <<69296, 69297>>, <<69376, 69404>>, <<69415, 69415>>,
     <<69424, 69445>>, <<69488, 69505>>, <<69552, 69572>>,
     <<69600, 69622>>, <<69635, 69687>>, <<69745, 69746>>,
     <<69749, 69749>>, <<69763, 69807>>, <<69840, 69864>>,
     <<69891, 69926>>, <<69956, 69956>>, <<69959, 69959>>,
     <<69968, 70002>>, <<70006, 70006>>, <<70019, 70066>>,
     <<70081, 70084>>, <<70106, 70106>>, <<70108, 70108>>,
     <<70144, 70161>>, <<70163, 70187>>, <<70272, 70278>>,
     <<70280, 70280>>, <<70282, 70285>>, <<70287, 70301>>,
     <<70303, 70312>>, <<70320, 70366>>, <<70405, 70412>>,
     <<70415, 70416>>, <<70419, 70440>>, <<70442, 70448>>,
     <<70450, 70451>>, <<70453, 70457>>, <<70461, 70461>>,
     <<70480, 70480>>, <<70493, 70497>>, <<70656, 70708>>,
     <<70727, 70730>>, <<70751, 70753>>, <<70784, 70831>>,
     <<70852, 70853>>, <<70855, 70855>>, <<71040, 71086>>,
     <<71128, 71131>>, <<71168, 71215>>, <<71236, 71236>>,
     <<71296, 71338>>, <<71352, 71352>>, <<71424, 71450>>,
     <<71488, 71494>>, <<71680, 71723>>, <<71840, 71903>>,
     <<71935, 71942>>, <<71945, 71945>>, <<71948, 71955>>,
     <<71957, 71958>>, <<71960, 71983>>, <<71999, 71999>>,
     <<72001, 72001>>, <<72096, 72103>>, <<72106, 72144>>,
     <<72161, 72161>>, <<72163, 72163>>, <<72192, 72192>>,
     <<72203, 72242>>, <<72250, 72250>>, <<72272, 72272>>,
     <<72284, 72329>>, <<72349, 72349>>, <<72368, 72440>>,
     <<72704, 72712>>, <<72714, 72750>>, <<72768, 72768>>,
     <<72818, 72847>>, <<72960, 72966>>, <<72968, 72969>>,
     <<72971, 73008>>, <<73030, 73030>>, <<73056, 73061>>,
     <<73063, 73064>>, <<73066, 73097>>, <<73112, 73112>>,
     <<73440, 73458>>, <<73648, 73648>>, <<73728, 74649>>,
     <<74880, 75075>>, <<77712, 77808>>, <<77824, 78894>>,
     <<82944, 83526>>, <<92160, 92728>>, <<92736, 92766>>,
     <<92784, 92862>>, <<92880, 92909>>, <<92928, 92975>>,
     <<92992, 92995>>, <<93027, 93047>>, <<93053, 93071>>,
     <<93760, 93823>>, <<93952, 94026>>, <<94032, 94032>>,
     <<94099, 94111>>, <<94176, 94177>>, <<94179, 94179>>,
     <<94208, 100343>>, <<100352, 101589>>, <<101632, 101640>>,
     <<110576, 110579>>, <<110581, 110587>>, <<110589, 110590>>,
     <<110592, 110882>>, <<110928, 110930>>, <<110948, 110951>>,
     <<110960, 111355>>, <<113664, 113770>>, <<113776, 113788>>,
     <<113792, 113800>>, <<113808, 113817>>, <<119808, 119892>>,
     <<119894, 119964>>, <<119966, 119967>>, <<119970, 119970>>,
     <<119973, 119974>>, <<119977, 119980>>, <<119982, 119993>>,
     <<119995, 119995>>, <<119997, 120003>>, <<120005, 120069>>,
     <<120071, 120074>>, <<120077, 120084>>, <<120086, 120092>>,
     <<120094, 120121>>, <<120123, 120126>>, <<120128, 120132>>,
     <<120134, 120134>>, <<120138, 120144>>, <<120146, 120485>>,
     <<120488, 120512>>, <<120514, 120538>>, <<120540, 120570>>,
     <<120572, 120596>>, <<120598, 120628>>, <<120630, 120654>>,
     <<120656, 120686>>, <<120688, 120712>>, <<120714, 120744>>,
     <<120746, 120770>>, <<120772, 120779>>, <<122624, 122654>>,
     <<123136, 123180>>, <<123191, 123197>>, <<123214, 123214>>,
     <<123536, 123565>>, <<123584, 123627>>, <<124896, 124902>>,
     <<124904, 124907>>, <<124909, 124910>>, <<124912, 124926>>,
     <<124928, 125124>>, <<125184, 125251>>, <<125259, 125259>>,
     <<126464, 126467>>, <<126469, 126495>>, <<126497, 126498>>,
     <<126500, 126500>>, <<126503, 126503>>, <<126505, 126514>>,
     <<126516, 126519>>, <<126521, 126521>>, <<126523, 126523>>,
     <<126530, 126530>>, <<126535, 126535>>, <<126537, 126537>>,
     <<126539, 126539>>, <<126541, 126543>>, <<126545, 126546>>,
     <<126548, 126548>>, <<126551, 126551>>, <<126553, 126553>>,
     <<126555, 126555>>, <<126557, 126557>>, <<126559, 126559>>,
     <<126561, 126562>>, <<126564, 126564>>, <<126567, 126570>>,
     <<126572, 126578>>, <<126580, 126583>>, <<126585, 126588>>,
     <<126590, 126590>>, <<126592, 126601>>, <<126603, 126619>>,
     <<126625, 126627>>, <<126629, 126633>>, <<126635, 126651>>,
     <<131072, 173791>>, <<173824, 177976>>, <<177984, 178205>>,
     <<178208, 183969>>, <<183984, 191456>>, <<194560, 195101>>,
     <<196608, 201546>>}

(* '0'..'9' *)
Digits == 48..57

(* str.isalpha() on one character *)
isalpha(letter) == \E r \in AlphaRanges : r[1] <= letter /\ letter <= r[2]

(* the literal of line 52, a str of three characters: a-circumflex, euro   *)
(* sign, trade-mark sign                                                   *)
ApostropheLiteral == <<226, 8364, 8482>>

(* characters of the modelled input files: a, Z, e-acute, a-circumflex,    *)
(* space, hyphen, newline, the digit 1, the apostrophe U+2019 and the euro *)
(* sign                                                                    *)
RawChars == {97, 90, 233, 226, Space, Hyphen, Newline, 49, 8217, 8364}

(* .replace('\n', ' ') *)
ReplaceNewline(s) == [i \in 1..Len(s) |-> IF s[i] = Newline THEN Space ELSE s[i]]

KeepLetter_Alnum(letter) ==
    isalpha(letter) \/ letter \in Digits \/ letter = Space \/ letter = Hyphen

(* the test of line 50 *)
KeepLetter(letter) == isalpha(letter) \/ letter = Space \/ letter = Hyphen

(* range(len(alnum_and_space)-1): number of iterations of the loop, line 57 *)
CollapseRange(s) == Len(s) - 1

(* lines 58-62, 1-based i: a space is kept only when the next character    *)
(* is not a space                                                          *)
KeepInCollapse(s, i) == IF s[i] = Space THEN ~(s[i + 1] = Space) ELSE TRUE

InitClean ==
    /\ pc = "read"
    /\ file_content \in SeqsUpTo(RawChars, MaxRawLen)
    /\ text_as_string = <<>>
    /\ alnum_and_space = <<>>
    /\ alnum_and_single_space = <<>>
    /\ index = 0
    /\ text = <<>>
    /\ snippets = <<>>
    /\ location_and_length = <<>>
    /\ snippet_indices = <<>>
    /\ SpIn_location = <<>>
    /\ x_find = 0
    /\ x_loc = 0
    /\ nr_of_chunks = 1
    /\ densities = <<>>
    /\ chunk_length = 0
    /\ x = 0
    /\ chunk = 0
    /\ start = 0
    /\ end = 0

(* lines 44-48 *)
ReadFile ==
    /\ pc = "read"
    /\ text_as_string' = ReplaceNewline(file_content)
    /\ alnum_and_space' = <<>>
    /\ index' = 0
    /\ pc' = "filter"
    /\ UNCHANGED <<file_content, alnum_and_single_space, text, SpIn_location>>
    /\ UNCHANGED findVars
    /\ UNCHANGED freqVars

(* one iteration of the loop of lines 49-53 *)
FilterLetter ==
    /\ pc = "filter"
    /\ index < Len(text_as_string)
    /\ LET letter == text_as_string[index + 1] IN
         alnum_and_space' =
            IF KeepLetter(letter) THEN Append(alnum_and_space, letter)
            ELSE IF <<letter>> = ApostropheLiteral
                 THEN Append(alnum_and_space, Space)
            ELSE alnum_and_space
    /\ index' = index + 1
    /\ UNCHANGED <<pc, file_content, text_as_string, alnum_and_single_space,
                   text, SpIn_location>>
    /\ UNCHANGED findVars
    /\ UNCHANGED freqVars

(* end of the loop of line 49; line 56 *)
FilterExit ==
    /\ pc = "filter"
    /\ index = Len(text_as_string)
    /\ alnum_and_single_space' = <<>>
    /\ index' = 0
    /\ pc' = "collapse"
    /\ UNCHANGED <<file_content, text_as_string, alnum_and_space, text,
                   SpIn_location>>
    /\ UNCHANGED findVars
    /\ UNCHANGED freqVars

(* one iteration of the loop of lines 57-62 *)
CollapseSpace ==
    /\ pc = "collapse"
    /\ index < CollapseRange(alnum_and_space)
    /\ alnum_and_single_space' =
          IF KeepInCollapse(alnum_and_space, index + 1)
          THEN Append(alnum_and_single_space, alnum_and_space[index + 1])
          ELSE alnum_and_single_space
    /\ index' = index + 1
    /\ UNCHANGED <<pc, file_content, text_as_string, alnum_and_space, text,
                   SpIn_location>>
    /\ UNCHANGED findVars
    /\ UNCHANGED freqVars

(* end of the loop of line 57; return of line 64 *)
CleanReturn ==
    /\ pc = "collapse"
    /\ index >= CollapseRange(alnum_and_space)
    /\ pc' = "cleaned"
    /\ UNCHANGED cleanVars
    /\ UNCHANGED <<text, SpIn_location>>
    /\ UNCHANGED findVars
    /\ UNCHANGED freqVars

NextClean == ReadFile \/ FilterLetter \/ FilterExit \/ CollapseSpace \/ CleanReturn

SpecClean == InitClean /\ [][NextClean]_vars

----------------------------------------------------------------------------
(* find_SpaRe *)

(* the alphabet of the texts and snippets given to find_SpaRe: a, b *)
TextChars == {97, 98}

(* str.find: lowest index of an occurrence of sub in t, -1 when absent *)
Find(t, sub) ==
    LET occ == {i \in 0..(Len(t) - Len(sub)) :
                   \A j \in 1..Len(sub) : t[i + j] = sub[j]}
    IN IF occ = {} THEN -1 ELSE Min(occ)

RangeSnippets_All(s) == Len(s)

(* range(len(snippets)-1): number of iterations of the loop of line 109 *)
RangeSnippets(s) == Len(s) - 1

SpInIndex_NoSkip(offset, length) == offset + length

(* line 120 *)
SpInIndex(offset, length) == offset + length + 1

RecordSnippet_Filtered(d, idx, snippet_length) ==
    IF idx = -1 THEN d ELSE DictUpdate(d, idx, snippet_length)

(* line 114 *)
RecordSnippet(d, idx, snippet_length) == DictUpdate(d, idx, snippet_length)

(* main(), lines 204-208: find_SpaRe then freq_SpIn on one text *)
InitWith(texts, snippetLists) ==
    /\ pc = "find"
    /\ text \in texts
    /\ snippets \in snippetLists
    /\ nr_of_chunks \in 1..MaxChunks
    /\ file_content = <<>>
    /\ text_as_string = <<>>
    /\ alnum_and_space = <<>>
    /\ alnum_and_single_space = <<>>
    /\ index = 0
    /\ location_and_length = <<>>
    /\ snippet_indices = <<>>
    /\ SpIn_location = <<>>
    /\ x_find = 0
    /\ x_loc = 0
    /\ densities = <<>>
    /\ chunk_length = 0
    /\ x = 0
    /\ chunk = 0
    /\ start = 0
    /\ end = 0

Init ==
    InitWith(SeqsUpTo(TextChars, MaxTextLen),
             SeqsUpTo(SeqsUpTo(TextChars, MaxSnippetLen), MaxSnippets))

(* one iteration of the loop of lines 109-114 *)
FindSnippet ==
    /\ pc = "find"
    /\ x_find < RangeSnippets(snippets)
    /\ LET snippet == snippets[x_find + 1]
           idx == Find(text, snippet)
           snippet_length == Len(snippet)
       IN /\ snippet_indices' = Append(snippet_indices, idx)
          /\ location_and_length' =
                RecordSnippet(location_and_length, idx, snippet_length)
    /\ x_find' = x_find + 1
    /\ UNCHANGED <<pc, text, snippets, SpIn_location, x_loc>>
    /\ UNCHANGED cleanVars
    /\ UNCHANGED freqVars

(* end of the loop of line 109; line 117 *)
FindExit ==
    /\ pc = "find"
    /\ x_find >= RangeSnippets(snippets)
    /\ SpIn_location' = <<>>
    /\ x_loc' = 0
    /\ pc' = "locate"
    /\ UNCHANGED <<text, snippets, location_and_length, snippet_indices, x_find>>
    /\ UNCHANGED cleanVars
    /\ UNCHANGED freqVars

(* one iteration of the loop of lines 118-121 *)
LocateSpIn ==
    /\ pc = "locate"
    /\ x_loc < Len(location_and_length)
    /\ LET entry == location_and_length[x_loc + 1] IN
         SpIn_location' = Append(SpIn_location, SpInIndex(entry.k, entry.v))
    /\ x_loc' = x_loc + 1
    /\ UNCHANGED <<pc, text, snippets, location_and_length, snippet_indices,
                   x_find>>
    /\ UNCHANGED cleanVars
    /\ UNCHANGED freqVars

(* end of the loop of line 118; return of line 123, call of line 208 *)
FindReturn ==
    /\ pc = "locate"
    /\ x_loc = Len(location_and_length)
    /\ pc' = "freq_entry"
    /\ UNCHANGED <<text, SpIn_location>>
    /\ UNCHANGED findVars
    /\ UNCHANGED cleanVars
    /\ UNCHANGED freqVars

----------------------------------------------------------------------------
(* freq_SpIn *)

ChunkLength_Floor(t, n) == Len(t) \div n

(* math.ceil(len(text)/nr_of_chunks), line 141 *)
ChunkLength(t, n) == (Len(t) + n - 1) \div n

ChunkEnd_NoShift(c, length, shift) == length * c

(* lines 146-152 *)
ChunkEnd(c, length, shift) ==
    IF c = 1 THEN length * c ELSE (length * c) + shift

ChunkStart_Inside(e, length) == e - length + 1

(* line 153 *)
ChunkStart(e, length) == e - length

(* the test of line 165 *)
InChunk(s, location, e) == s <= location /\ location <= e

ZeroCount_Skip(d, c) == d

(* line 163 *)
ZeroCount(d, c) == DictUpdate(d, c, 0)

(* the loop of lines 164-167 from position i on, with the running count *)
RECURSIVE CountSpIns(_, _, _, _, _, _, _)
CountSpIns(d, c, count, locations, i, s, e) ==
    IF i > Len(locations) THEN d
    ELSE IF InChunk(s, locations[i], e)
         THEN CountSpIns(DictUpdate(d, c, count + 1), c, count + 1,
                         locations, i + 1, s, e)
         ELSE CountSpIns(d, c, count, locations, i + 1, s, e)

(* freq_SpIn called directly on a text and a list of locations *)
InitFreq ==
    /\ pc = "freq_entry"
    /\ text \in SeqsUpTo({97}, MaxFreqTextLen)
    /\ SpIn_location \in SeqsUpTo(-1..(MaxFreqTextLen + 2), MaxLocs)
    /\ nr_of_chunks \in 1..MaxChunks
    /\ file_content = <<>>
    /\ text_as_string = <<>>
    /\ alnum_and_space = <<>>
    /\ alnum_and_single_space = <<>>
    /\ index = 0
    /\ snippets = <<>>
    /\ location_and_length = <<>>
    /\ snippet_indices = <<>>
    /\ x_find = 0
    /\ x_loc = 0
    /\ densities = <<>>
    /\ chunk_length = 0
    /\ x = 0
    /\ chunk = 0
    /\ start = 0
    /\ end = 0

(* lines 139-144 *)
FreqEntry ==
    /\ pc = "freq_entry"
    /\ densities' = <<>>
    /\ chunk_length' = ChunkLength(text, nr_of_chunks)
    /\ x' = 0
    /\ chunk' = 0
    /\ pc' = "freq"
    /\ UNCHANGED <<text, SpIn_location, nr_of_chunks, start, end>>
    /\ UNCHANGED findVars
    /\ UNCHANGED cleanVars

(* one iteration of the loop of lines 145-167 *)
CountChunk ==
    /\ pc = "freq"
    /\ chunk < nr_of_chunks
    /\ LET c == chunk + 1
           e == ChunkEnd(c, chunk_length, x)
           s == ChunkStart(e, chunk_length)
       IN /\ chunk' = c
          /\ end' = e
          /\ start' = s
          /\ x' = x + 1
          /\ densities' = CountSpIns(ZeroCount(densities, c), c, 0,
                                     SpIn_location, 1, s, e)
    /\ UNCHANGED <<pc, text, SpIn_location, nr_of_chunks, chunk_length>>
    /\ UNCHANGED findVars
    /\ UNCHANGED cleanVars

(* end of the loop of line 145; return of line 169 *)
FreqReturn ==
    /\ pc = "freq"
    /\ chunk = nr_of_chunks
    /\ pc' = "done"
    /\ UNCHANGED <<text, SpIn_location>>
    /\ UNCHANGED findVars
    /\ UNCHANGED freqVars
    /\ UNCHANGED cleanVars

NextFreq == FreqEntry \/ CountChunk \/ FreqReturn

SpecFreq == InitFreq /\ [][NextFreq]_vars

Next ==
    \/ FindSnippet
    \/ FindExit
    \/ LocateSpIn
    \/ FindReturn
    \/ FreqEntry
    \/ CountChunk
    \/ FreqReturn

Spec == Init /\ [][Next]_vars

----------------------------------------------------------------------------
(* The scenario text, with snippets taken from it *)

ScenarioText ==
    <<116, 104, 101, 32, 99, 97, 116, 32, 115, 97, 116, 32,
      111, 110, 32, 116, 104, 101, 32, 109, 97, 116>>

TheCatSatSpace == SubSeq(ScenarioText, 1, 12)
TheCatSat == SubSeq(ScenarioText, 1, 11)
OnWord == SubSeq(ScenarioText, 13, 14)
DogWord == <<100, 111, 103>>

ScenarioSnippets == {TheCatSatSpace, TheCatSat, OnWord, DogWord}

InitScenario == InitWith({ScenarioText}, SeqsUpTo(ScenarioSnippets, 2))

SpecScenario == InitScenario /\ [][Next]_vars

----------------------------------------------------------------------------
(* Properties of freq_SpIn *)

Returned == pc = "done"

Total == SumSeq(DictValues(densities))

LocationsIn(s, e) ==
    {i \in 1..Len(SpIn_location) : s <= SpIn_location[i] /\ SpIn_location[i] <= e}

(* C1: the histogram returned by freq_SpIn has exactly the keys 1..N, in   *)
(* ascending order of insertion, whether or not a location falls in the    *)
(* segment, and every value is a non-negative integer.                     *)
C1_HistogramKeys ==
    Returned =>
        /\ DictKeys(densities) = [i \in 1..nr_of_chunks |-> i]
        /\ \A i \in 1..Len(densities) : densities[i].v \in Nat

C1_Witness ==
    /\ Returned
    /\ nr_of_chunks >= 2
    /\ SpIn_location # <<>>
    /\ \E i \in 1..Len(densities) : densities[i].v = 0
    /\ \E i \in 1..Len(densities) : densities[i].v >= 1

(* the last character position of the text, and the segment whose range    *)
(* holds it                                                                *)
LastPosition == Len(text) - 1
SegmentOfLast == (LastPosition \div (chunk_length + 1)) + 1

(* C7 as stated: when len(text) is not divisible by N, the last character  *)
(* position lies in the range of segment N and a location there is counted *)
(* under key N.                                                            *)
C7_LastInSegmentN ==
    (Returned /\ Len(text) % nr_of_chunks # 0) =>
        /\ Len(densities) = nr_of_chunks
        /\ start <= LastPosition /\ LastPosition <= end
        /\ DictGet(densities, nr_of_chunks)
              >= Cardinality(LocationsIn(LastPosition, LastPosition))

(* C7 amended: when len(text) is not divisible by N, there are N segments  *)
(* and the last character position lies in the range of exactly one of     *)
(* them, segment floor((len-1)/(chunk_length+1)) + 1, which may be an      *)
(* earlier segment than N; a location there is counted under that key.     *)
C7_LastInOneSegment ==
    (pc \in {"freq", "done"} /\ chunk >= 1 /\ Len(text) % nr_of_chunks # 0) =>
        /\ SegmentOfLast <= nr_of_chunks
        /\ (start <= LastPosition /\ LastPosition <= end) <=> (chunk = SegmentOfLast)
        /\ chunk = SegmentOfLast =>
              DictGet(densities, chunk)
                 >= Cardinality(LocationsIn(LastPosition, LastPosition))
        /\ Returned => Len(densities) = nr_of_chunks

C7_Witness ==
    /\ Returned
    /\ Len(text) % nr_of_chunks # 0
    /\ SegmentOfLast < nr_of_chunks
    /\ LocationsIn(LastPosition, LastPosition) # {}
    /\ DictGet(densities, SegmentOfLast) >= 1
    /\ DictGet(densities, nr_of_chunks) = 0

NextChunk == pc = "freq" /\ chunk >= 1 /\ chunk' = chunk + 1

(* C8 as stated: the end of segment k is the start of segment k+1.         *)
C8_SegmentsOverlap == [][NextChunk => start' = end]_vars

(* C8 amended: consecutive segments do not overlap, the start of segment   *)
(* k+1 is the end of segment k plus one, so a location is counted in at    *)
(* most one segment.                                                       *)
C8_SegmentsDisjoint ==
    /\ [][NextChunk => start' = end + 1]_vars
    /\ [](Returned => Total <= Len(SpIn_location))

C8_Witness ==
    /\ Returned
    /\ nr_of_chunks >= 2
    /\ SpIn_location = <<chunk_length>>
    /\ chunk_length >= 1
    /\ DictGet(densities, 1) = 1
    /\ DictGet(densities, 2) = 0

----------------------------------------------------------------------------
(* Properties of find_SpaRe *)

Located == pc \in {"freq_entry", "freq", "done"}

Processed == 1..(Len(snippets) - 1)

Offset(i) == Find(text, snippets[i])

AllFound == \A i \in Processed : Offset(i) >= 0

(* C2 as stated: when every processed snippet occurs in the text, the      *)
(* counts of the histogram add up to the number of locations returned by   *)
(* find_SpaRe.                                                             *)
C2_TotalIsLocations ==
    (Returned /\ AllFound) => Total = Len(SpIn_location)

(* C2 amended: when every processed snippet occurs in the text, the counts *)
(* add up to the number of returned locations, except that with N = 1 a    *)
(* location len(text)+1 (a snippet whose first occurrence ends the text)   *)
(* is not counted.                                                         *)
C2_TotalIsCovered ==
    (Returned /\ AllFound) =>
        Total = Cardinality({i \in 1..Len(SpIn_location) :
                    nr_of_chunks >= 2 \/ SpIn_location[i] <= Len(text)})

C2_Witness ==
    /\ Returned
    /\ AllFound
    /\ nr_of_chunks = 1
    /\ Len(SpIn_location) = 2
    /\ \E i \in 1..2 : SpIn_location[i] = Len(text) + 1
    /\ Total = 1

(* C3: find_SpaRe processes every snippet but the last; a processed        *)
(* snippet that occurs in the text, at an offset no other processed        *)
(* snippet has, yields the location offset + len(snippet) + 1; every       *)
(* location comes from a processed snippet.                                *)
C3_AllButLast ==
    Located =>
        /\ Len(snippet_indices) = Cardinality(Processed)
        /\ \A i \in Processed :
              (Offset(i) >= 0 /\ \A j \in Processed \ {i} : Offset(j) # Offset(i))
                 => \E p \in 1..Len(SpIn_location) :
                       SpIn_location[p] = Offset(i) + Len(snippets[i]) + 1
        /\ Len(SpIn_location) <= Cardinality(Processed)
        /\ \A p \in 1..Len(SpIn_location) : \E i \in Processed :
              SpIn_location[p] = Offset(i) + Len(snippets[i]) + 1

C3_Witness ==
    /\ Located
    /\ Len(snippets) = 3
    /\ Offset(1) >= 0 /\ Offset(2) >= 0 /\ Offset(3) >= 0
    /\ Offset(1) # Offset(2)
    /\ Len(SpIn_location) = 2
    /\ \A p \in 1..2 : SpIn_location[p] # Offset(3) + Len(snippets[3]) + 1

Absent == {i \in Processed : Offset(i) = -1}

(* C9: an absent processed snippet is recorded under offset -1 and still   *)
(* yields a location, -1 + len(snippet) + 1 = len(snippet) >= 0; all the   *)
(* absent snippets share the key -1 and yield one location, from the       *)
(* length of the latest of them.                                           *)
C9_SentinelKept ==
    (Located /\ Absent # {}) =>
        /\ \A i \in Absent : snippet_indices[i] = -1
        /\ Cardinality({p \in 1..Len(location_and_length) :
                           location_and_length[p].k = -1}) = 1
        /\ Len(SpIn_location) = Len(location_and_length)
        /\ \A p \in 1..Len(location_and_length) :
              location_and_length[p].k = -1 =>
                 /\ SpIn_location[p] = Len(snippets[Max(Absent)])
                 /\ SpIn_location[p] >= 0

C9_Witness ==
    /\ Located
    /\ Cardinality(Absent) = 2
    /\ Len(snippets[1]) # Len(snippets[2])
    /\ SpIn_location = <<Len(snippets[2])>>

OffsetsOfProcessed == {Offset(i) : i \in Processed}

LatestAt(o) == Max({i \in Processed : Offset(i) = o})

(* C10: processed snippets with the same first-occurrence offset yield one *)
(* location, computed from the length of the latest of them; the number of *)
(* locations is the number of distinct offsets of the processed snippets.  *)
C10_LastWriteWins ==
    Located =>
        /\ Len(SpIn_location) = Cardinality(OffsetsOfProcessed)
        /\ Len(location_and_length) = Len(SpIn_location)
        /\ \A o \in OffsetsOfProcessed :
              \E p \in 1..Len(location_and_length) :
                 /\ location_and_length[p].k = o
                 /\ SpIn_location[p] = o + Len(snippets[LatestAt(o)]) + 1

C10_Witness ==
    /\ Located
    /\ Len(snippets) = 3
    /\ Offset(1) >= 0
    /\ Offset(1) = Offset(2)
    /\ Len(snippets[1]) > Len(snippets[2])
    /\ SpIn_location = <<Offset(2) + Len(snippets[2]) + 1>>

Histogram(c1, c2) == <<[k |-> 1, v |-> c1], [k |-> 2, v |-> c2]>>

(* C4 as stated: text "the cat sat on the mat", snippets ["the cat sat "]  *)
(* and N = 2 give the single location 12 and the histogram {1: 0, 2: 1}.   *)
C4_Scenario ==
    (Returned /\ text = ScenarioText /\ snippets = <<TheCatSatSpace>>
        /\ nr_of_chunks = 2) =>
        /\ SpIn_location = <<12>>
        /\ densities = Histogram(0, 1)

(* C4 amended: with that text, snippets ["the cat sat "] and N = 2,        *)
(* find_SpaRe returns no location, the only snippet being the last one,    *)
(* and the histogram is {1: 0, 2: 0}; location 12 and {1: 0, 2: 1} result  *)
(* from snippets ["the cat sat", s] for any last snippet s.                *)
C4_ScenarioAsCoded ==
    (Returned /\ text = ScenarioText /\ nr_of_chunks = 2) =>
        /\ snippets = <<TheCatSatSpace>> =>
              (SpIn_location = <<>> /\ densities = Histogram(0, 0))
        /\ (Len(snippets) = 2 /\ snippets[1] = TheCatSat) =>
              (SpIn_location = <<12>> /\ densities = Histogram(0, 1))

C4_Witness ==
    /\ Returned
    /\ text = ScenarioText
    /\ snippets = <<TheCatSatSpace>>
    /\ nr_of_chunks = 2
    /\ SpIn_location = <<>>
    /\ densities = Histogram(0, 0)

----------------------------------------------------------------------------
(* Properties of clean_text *)

Cleaned == pc = "cleaned"

Kept(c) == isalpha(c) \/ c = Space \/ c = Hyphen

(* C5: the string returned by clean_text holds only letters, spaces and    *)
(* hyphens, and no two consecutive spaces.                                 *)
C5_OnlyKeptCharacters ==
    Cleaned =>
        /\ \A i \in 1..Len(alnum_and_single_space) :
              Kept(alnum_and_single_space[i])
        /\ \A i \in 1..(Len(alnum_and_single_space) - 1) :
              ~(alnum_and_single_space[i] = Space
                  /\ alnum_and_single_space[i + 1] = Space)

C5_Witness ==
    /\ Cleaned
    /\ \E i \in 1..(Len(file_content) - 2) :
          /\ file_content[i] \in {Space, Newline}
          /\ file_content[i + 1] \in {49, 8217, 8364}
          /\ file_content[i + 2] \in {Space, Newline}
    /\ \E i \in 1..Len(alnum_and_single_space) :
          alnum_and_single_space[i] = Space

(* the normalization the claim describes: newlines become spaces, only     *)
(* letters, spaces and hyphens stay, every run of spaces becomes one space *)
RECURSIVE CollapseRuns(_)
CollapseRuns(s) ==
    IF Len(s) <= 1 THEN s
    ELSE IF s[1] = Space /\ s[2] = Space THEN CollapseRuns(Tail(s))
         ELSE <<s[1]>> \o CollapseRuns(Tail(s))

Normalized(s) ==
    CollapseRuns(SelectSeq(ReplaceNewline(s), LAMBDA c : Kept(c)))

(* C6: clean_text returns the normalization of the file content, the last  *)
(* kept character included, and the empty string for an empty file.        *)
C6_IsNormalization ==
    Cleaned => alnum_and_single_space = Normalized(file_content)

====
